---------------------------- MODULE Spec2Model ----------------------------
(***************************************************************************)
(* A model of the transaction processor of src/txn/txn_processor.cc and of *)
(* the two lock managers of src/txn/lock_manager.cc.                       *)
(*                                                                         *)
(* One scheduler thread runs the loop of the processor's mode; every task  *)
(* handed to the thread pool (ExecuteTxn, ValidateTxn) runs on a thread of *)
(* its own (THREAD_COUNT is 100, more than the transactions of any         *)
(* workload below); every transaction is submitted by a client thread of   *)
(* its own.  The atomic queues are sequences.  A step of the scheduler is  *)
(* the handling of one popped item; those of a task are its accesses to    *)
(* storage and to the queues.                                              *)
(***************************************************************************)
EXTENDS Integers, Sequences, FiniteSets, TLC

(***************************************************************************)
(* Bounds of the model.                                                    *)
(***************************************************************************)
NumTxns == 3         \* transaction objects a workload may use
NumKeys == 4         \* keys 1..NumKeys
MaxRestarts == 3     \* NewTxnRequest calls made by the scheduler (restarts)

\* #define N 200 / #define M 200: the batch bounds of the P_OCC drains.
\* The loops are modelled with the source's shape, for a batch bound that
\* the workloads of the model can exceed as a workload of more than 200
\* transactions exceeds the source's.
N == 1
M == 1

Txns == 1..NumTxns
Keys == 1..NumKeys
MaxUniqueId == NumTxns + MaxRestarts

Modes == {"SERIAL", "LOCKING", "LOCKING_EXCLUSIVE_ONLY", "OCC", "P_OCC"}

VARIABLES
  mode_,             \* CCMode of the processor
  prog,              \* prog[t]: the client's transaction object t (its class,
                     \* readset_, writeset_, arguments)
  cpc,               \* cpc[t]: position of the client thread that submits t
  mutex_,            \* holder of TxnProcessor::mutex_ (0: free)
  next_unique_id_,
  unique_id_,        \* unique_id_[t] (0: not yet assigned)
  status_,           \* status_[t]
  reads_,            \* reads_[t]: map key -> value
  writes_,           \* writes_[t]: map key -> value
  occ_start_time_,   \* occ_start_time_[t]
  txn_requests_,     \* AtomicQueue<Txn*>
  completed_txns_,   \* AtomicQueue<Txn*>
  validated_txns_,   \* AtomicQueue<pair<Txn*, bool>>
  txn_results_,      \* AtomicQueue<Txn*>
  ready_txns_,       \* deque<Txn*>
  lock_table_,       \* lock_table_[k]: deque<LockRequest>
  txn_waits_,        \* map Txn* -> int
  active_set_,       \* set<Txn*>
  storage_,          \* storage_.data: key -> value, storage_.ts: key -> time
  clock,             \* the value the next GetTime() returns
  sched,             \* the scheduler thread: its position in the loop and
                     \* the locals of the loop (txn, verified, i, j)
  task,              \* task[t]: the pool task that holds t: its position and
                     \* its locals (active_set_copy, verified)
  hist               \* history: results posted, results returned, ids handed
                     \* out, storage writes

vars == << mode_, prog, cpc, mutex_, next_unique_id_, unique_id_, status_,
           reads_, writes_, occ_start_time_, txn_requests_, completed_txns_,
           validated_txns_, txn_results_, ready_txns_, lock_table_,
           txn_waits_, active_set_, storage_, clock, sched, task, hist >>

(***************************************************************************)
(* Maps (std::map, unordered_map) are functions on the keys they hold.     *)
(***************************************************************************)
EmptyMap == [x \in {} |-> 0]

MapPut(m, k, v) == [x \in (DOMAIN m) \cup {k} |-> IF x = k THEN v ELSE m[x]]

Has(m, k) == k \in DOMAIN m

RECURSIVE SortedSeq(_)
\* the elements of a std::set in iteration (ascending) order
SortedSeq(S) ==
  IF S = {} THEN << >>
  ELSE LET x == CHOOSE y \in S : \A z \in S : y <= z
       IN  << x >> \o SortedSeq(S \ {x})

SeqSet(s) == { s[i] : i \in 1..Len(s) }

RemoveAt(s, i) == [ j \in 1..(Len(s) - 1) |-> IF j < i THEN s[j] ELSE s[j + 1] ]

(***************************************************************************)
(* Storage (external): Read, Write, Timestamp.  Write stamps the key with  *)
(* the current clock; the timestamp of an absent key is 0, earlier than    *)
(* any occ_start_time_.  GetTime() is strictly increasing.                 *)
(***************************************************************************)
StorageRead(st, k) == Has(st.data, k)

StorageTimestamp(st, k) == IF Has(st.ts, k) THEN st.ts[k] ELSE 0

StorageWrite(st, k, v, now) ==
  [ data |-> MapPut(st.data, k, v), ts |-> MapPut(st.ts, k, now) ]


(***************************************************************************)
(* Transaction programs.  A transaction object carries its class (type),   *)
(* its declared readset_ and writeset_, the argument of its constructor    *)
(* (m for Put and Expect, account_ for Shopping) and, for the client       *)
(* thread that submits it, the transactions whose results that thread has  *)
(* taken before it calls NewTxnRequest (after).                            *)
(***************************************************************************)
TxnObject(type, rs, ws, m, account, commit, after) ==
  [ type |-> type, readset_ |-> rs, writeset_ |-> ws, m |-> m,
    account_ |-> account, commit |-> commit, after |-> after ]

NoTxn == TxnObject("None", {}, {}, EmptyMap, 0, TRUE, {})

Noop(after) == TxnObject("Noop", {}, {}, EmptyMap, 0, TRUE, after)

Put(m, after) == TxnObject("Put", {}, DOMAIN m, m, 0, TRUE, after)

Expect(m, after) == TxnObject("Expect", DOMAIN m, {}, m, 0, TRUE, after)

BankTxn(after) == TxnObject("BankTxn", {1}, {1}, EmptyMap, 0, TRUE, after)

Shopping(account, after) ==
  TxnObject("Shopping", {1}, {1, account}, EmptyMap, account, TRUE, after)

\* Any other program under the transaction contract: it reads what it
\* declared, buffers one write per key of its writeset (the value read, or
\* 0, plus one) and closes with COMMIT (commit) or with ABORT.
RMW(rs, ws, commit, after) == TxnObject("RMW", rs, ws, EmptyMap, 0, commit, after)

\* Txn::Read(key, &result) into a zero-initialised result
ReadOr0(reads, k) == IF Has(reads, k) THEN reads[k] ELSE 0

\* Txn::Run(): from the reads_ the executor prefetched to the writes_ the
\* program buffers and the status it closes with.
Run(p, reads) ==
  CASE p.type = "Noop" ->
         [ writes_ |-> EmptyMap, status_ |-> "COMPLETED_C" ]
    [] p.type = "Put" ->
         [ writes_ |-> p.m, status_ |-> "COMPLETED_C" ]
    [] p.type = "Expect" ->
         [ writes_ |-> EmptyMap,
           status_ |-> IF \A k \in DOMAIN p.m : Has(reads, k) /\ reads[k] = p.m[k]
                       THEN "COMPLETED_C" ELSE "COMPLETED_A" ]
    [] p.type = "BankTxn" ->
         [ writes_ |-> MapPut(EmptyMap, 1, ReadOr0(reads, 1) + 1),
           status_ |-> "COMPLETED_C" ]
    [] p.type = "Shopping" ->
         [ writes_ |-> IF ReadOr0(reads, 1) # 0
                       THEN MapPut(MapPut(EmptyMap, 1, ReadOr0(reads, 1) - 1),
                                   p.account_, ReadOr0(reads, p.account_) + 1)
                       ELSE EmptyMap,
           status_ |-> "COMPLETED_C" ]
    [] OTHER ->
         [ writes_ |-> [ k \in p.writeset_ |-> ReadOr0(reads, k) + 1 ],
           status_ |-> IF p.commit THEN "COMPLETED_C" ELSE "COMPLETED_A" ]

(***************************************************************************)
(* The lock managers.  lm is the lock manager's state together with the    *)
(* ready list it was constructed on:                                       *)
(*   [lock_table_, txn_waits_, ready_txns_].                               *)
(* A lock call returns [lm, ret].                                          *)
(***************************************************************************)
LockRequest(mode, t) == [ mode_ |-> mode, txn_ |-> t ]

\* if (txn_waits_.count(txn)) txn_waits_[txn] = 1; else txn_waits_[txn]++;
WaitsBlocked(w, t) ==
  IF Has(w, t) THEN MapPut(w, t, 1) ELSE MapPut(w, t, 0 + 1)

\* --txn_waits_[t] (operator[] makes a missing entry 0 first)
WaitsDecrement(w, t) == MapPut(w, t, (IF Has(w, t) THEN w[t] ELSE 0) - 1)

\* if (--txn_waits_[t] == 0) ready_txns_->push_back(t);
Wake(lm, t) ==
  LET w == WaitsDecrement(lm.txn_waits_, t)
  IN  [ lm EXCEPT !.txn_waits_ = w,
                  !.ready_txns_ = IF w[t] = 0 THEN Append(@, t) ELSE @ ]

\* the position of txn's first request in a queue (0: none)
FirstOf(q, t) ==
  IF \E i \in 1..Len(q) : q[i].txn_ = t
  THEN CHOOSE i \in 1..Len(q) : q[i].txn_ = t /\ \A j \in 1..(i - 1) : q[j].txn_ # t
  ELSE 0

LockManagerA_WriteLock(lm, t, k) ==
  LET q == Append(lm.lock_table_[k], LockRequest("EXCLUSIVE", t))
      granted == Len(q) = 1
  IN  [ lm |-> [ lm EXCEPT !.lock_table_[k] = q,
                           !.txn_waits_ = IF granted THEN @ ELSE WaitsBlocked(@, t) ],
        ret |-> granted ]

LockManagerA_ReadLock(lm, t, k) == LockManagerA_WriteLock(lm, t, k)

LockManagerA_Release(lm, t, k) ==
  LET q == lm.lock_table_[k]
      i == FirstOf(q, t)
      hadLock == q[1].txn_ = t
      q2 == RemoveAt(q, i)
      lm2 == [ lm EXCEPT !.lock_table_[k] = q2 ]
  IN  IF i = 0 THEN lm
      ELSE IF Len(q2) >= 1 /\ hadLock THEN Wake(lm2, q2[1].txn_) ELSE lm2

LockManagerB_WriteLock(lm, t, k) ==
  LET q == Append(lm.lock_table_[k], LockRequest("EXCLUSIVE", t))
      granted == q[1].txn_ = t
  IN  [ lm |-> [ lm EXCEPT !.lock_table_[k] = q,
                           !.txn_waits_ = IF granted THEN @ ELSE WaitsBlocked(@, t) ],
        ret |-> granted ]

\* a ReadLock that grants only the head of the queue
LockManagerB_ReadLock_HeadOnly(lm, t, k) == LockManagerA_WriteLock(lm, t, k)

LockManagerB_ReadLock(lm, t, k) ==
  LET q == Append(lm.lock_table_[k], LockRequest("SHARED", t))
      granted == \A i \in 1..Len(q) : q[i].mode_ # "EXCLUSIVE"
  IN  [ lm |-> [ lm EXCEPT !.lock_table_[k] = q,
                           !.txn_waits_ = IF granted THEN @ ELSE WaitsBlocked(@, t) ],
        ret |-> granted ]

RECURSIVE WakeSharedRun(_, _, _)
\* for (j = ...; j != requests->end() && j->mode_ == SHARED; j++) wake j->txn_
WakeSharedRun(lm, q, j) ==
  IF j <= Len(q) /\ q[j].mode_ = "SHARED"
  THEN WakeSharedRun(Wake(lm, q[j].txn_), q, j + 1)
  ELSE lm

\* a Release that wakes at most the request after the released one
LockManagerB_Release_NextOnly(lm, t, k) == LockManagerA_Release(lm, t, k)

LockManagerB_Release(lm, t, k) ==
  LET q == lm.lock_table_[k]
      i == FirstOf(q, t)
      atStart == i = 1
      lm1 == IF i + 1 <= Len(q) /\ atStart /\ q[i + 1].mode_ = "EXCLUSIVE"
             THEN Wake(lm, q[i + 1].txn_)
             ELSE lm
      lm2 == IF /\ i + 1 <= Len(q)
                /\ q[i].mode_ = "EXCLUSIVE"
                /\ \/ atStart /\ q[i + 1].mode_ = "SHARED"
                   \/ /\ ~atStart
                      /\ q[i - 1].mode_ = "SHARED"
                      /\ q[i + 1].mode_ = "SHARED"
             THEN WakeSharedRun(lm1, q, i + 1)
             ELSE lm1
  IN  IF i = 0 THEN lm
      ELSE [ lm2 EXCEPT !.lock_table_[k] = RemoveAt(q, i) ]

\* lm_ is a LockManagerA under LOCKING_EXCLUSIVE_ONLY, a LockManagerB under
\* LOCKING (the constructor of TxnProcessor).
ReadLock(m, lm, t, k) ==
  IF m = "LOCKING_EXCLUSIVE_ONLY" THEN LockManagerA_ReadLock(lm, t, k)
  ELSE LockManagerB_ReadLock(lm, t, k)

WriteLock(m, lm, t, k) ==
  IF m = "LOCKING_EXCLUSIVE_ONLY" THEN LockManagerA_WriteLock(lm, t, k)
  ELSE LockManagerB_WriteLock(lm, t, k)

Release(m, lm, t, k) ==
  IF m = "LOCKING_EXCLUSIVE_ONLY" THEN LockManagerA_Release(lm, t, k)
  ELSE LockManagerB_Release(lm, t, k)

RECURSIVE RequestLocks(_, _, _, _, _)
\* the two request loops of RunLockingScheduler: acc = [lm, blocked]
RequestLocks(m, acc, t, ks, read) ==
  IF ks = << >> THEN acc
  ELSE LET r == IF read THEN ReadLock(m, acc.lm, t, Head(ks))
                ELSE WriteLock(m, acc.lm, t, Head(ks))
       IN  RequestLocks(m,
                        [ lm |-> r.lm,
                          blocked |-> acc.blocked + (IF r.ret THEN 0 ELSE 1) ],
                        t, Tail(ks), read)

RECURSIVE ReleaseLocks(_, _, _, _)
\* the two release loops of RunLockingScheduler
ReleaseLocks(m, lm, t, ks) ==
  IF ks = << >> THEN lm
  ELSE ReleaseLocks(m, Release(m, lm, t, Head(ks)), t, Tail(ks))


(***************************************************************************)
(* TxnProcessor::NewTxnRequest, called by a client thread or (restarts) by *)
(* the scheduler.  Two steps: Lock and the assignment of the id; then the  *)
(* increment, the Push and Unlock.                                         *)
(***************************************************************************)
Max(a, b) == IF a >= b THEN a ELSE b

\* the assignment of the id without mutex_.Lock() waiting for the mutex
NewTxnRequest_NoLock(t) ==
  /\ next_unique_id_ <= MaxUniqueId
  /\ mutex_' = TRUE
  /\ unique_id_' = [unique_id_ EXCEPT ![t] = next_unique_id_]
  /\ hist' = [ hist EXCEPT !.assigned = Append(@, next_unique_id_),
                           !.low[t] = hist.done_max,
                           !.first_id[t] = IF @ = 0 THEN next_unique_id_ ELSE @ ]

\* mutex_.Lock(); txn->unique_id_ = next_unique_id_;
NewTxnRequest_Lock(t) ==
  /\ ~mutex_
  /\ next_unique_id_ <= MaxUniqueId
  /\ mutex_' = TRUE
  /\ unique_id_' = [unique_id_ EXCEPT ![t] = next_unique_id_]
  /\ hist' = [ hist EXCEPT !.assigned = Append(@, next_unique_id_),
                           !.low[t] = hist.done_max,
                           !.first_id[t] = IF @ = 0 THEN next_unique_id_ ELSE @ ]

\* next_unique_id_++; txn_requests_.Push(txn); mutex_.Unlock();
NewTxnRequest_Unlock(t) ==
  /\ next_unique_id_' = next_unique_id_ + 1
  /\ txn_requests_' = Append(txn_requests_, t)
  /\ mutex_' = FALSE
  /\ hist' = [ hist EXCEPT !.pushed = Append(@, unique_id_[t]),
                           !.done_max = Max(@, unique_id_[t]) ]

(***************************************************************************)
(* Client threads.                                                         *)
(***************************************************************************)
ClientNewTxnRequest(t) ==
  /\ cpc[t] = "new"
  /\ prog[t].type # "None"
  /\ prog[t].after \subseteq hist.returned
  /\ NewTxnRequest_Lock(t)
  /\ cpc' = [cpc EXCEPT ![t] = "NewTxnRequest"]
  /\ UNCHANGED << mode_, prog, next_unique_id_, status_, reads_, writes_,
                  occ_start_time_, txn_requests_, completed_txns_,
                  validated_txns_, txn_results_, ready_txns_, lock_table_,
                  txn_waits_, active_set_, storage_, clock, sched, task >>

ClientNewTxnRequestEnd(t) ==
  /\ cpc[t] = "NewTxnRequest"
  /\ NewTxnRequest_Unlock(t)
  /\ cpc' = [cpc EXCEPT ![t] = "submitted"]
  /\ UNCHANGED << mode_, prog, unique_id_, status_, reads_, writes_,
                  occ_start_time_, completed_txns_, validated_txns_,
                  txn_results_, ready_txns_, lock_table_, txn_waits_,
                  active_set_, storage_, clock, sched, task >>

\* TxnProcessor::GetTxnResult: a successful Pop of txn_results_
GetTxnResult ==
  /\ txn_results_ # << >>
  /\ txn_results_' = Tail(txn_results_)
  /\ hist' = [ hist EXCEPT !.returned = @ \cup { Head(txn_results_) } ]
  /\ UNCHANGED << mode_, prog, cpc, mutex_, next_unique_id_, unique_id_,
                  status_, reads_, writes_, occ_start_time_, txn_requests_,
                  completed_txns_, validated_txns_, ready_txns_, lock_table_,
                  txn_waits_, active_set_, storage_, clock, sched, task >>

(***************************************************************************)
(* TxnProcessor::ExecuteTxn and TxnProcessor::ApplyWrites.                 *)
(***************************************************************************)
\* reads_ after the two prefetch loops (the writeset's reads come second)
Prefetch(st, p) ==
  [ k \in { x \in p.readset_ \cup p.writeset_ : StorageRead(st, x) } |-> st.data[k] ]

RECURSIVE WriteAll(_, _, _, _)
\* storage_.Write(k, w[k]) for the keys ks of w, each at a later clock
WriteAll(st, w, ks, now) ==
  IF ks = << >> THEN st
  ELSE WriteAll(StorageWrite(st, Head(ks), w[Head(ks)], now), w, Tail(ks), now + 1)

\* an ApplyWrites that installs nothing
ApplyWrites_Nothing(st, w, now) == st

\* an ApplyWrites that leaves out the last of the buffered writes
ApplyWrites_NotLast(st, w, now) ==
  LET ks == SortedSeq(DOMAIN w)
  IN  WriteAll(st, w, SubSeq(ks, 1, Len(ks) - 1), now)

\* the storage after ApplyWrites(txn) with txn->writes_ = w
ApplyWrites(st, w, now) == WriteAll(st, w, SortedSeq(DOMAIN w), now)

\* the task ExecuteTxn(t): reads_.clear(), writes_.clear(), the prefetch
ExecuteTxnRead(t) ==
  /\ task[t].pc = "ExecuteTxn"
  /\ reads_' = [reads_ EXCEPT ![t] = Prefetch(storage_, prog[t])]
  /\ writes_' = [writes_ EXCEPT ![t] = EmptyMap]
  /\ task' = [task EXCEPT ![t].pc = "Run"]
  /\ UNCHANGED << mode_, prog, cpc, mutex_, next_unique_id_, unique_id_,
                  status_, occ_start_time_, txn_requests_, completed_txns_,
                  validated_txns_, txn_results_, ready_txns_, lock_table_,
                  txn_waits_, active_set_, storage_, clock, sched, hist >>

\* the task ExecuteTxn(t): txn->Run(); completed_txns_.Push(txn);
ExecuteTxnRun(t) ==
  /\ task[t].pc = "Run"
  /\ LET r == Run(prog[t], reads_[t])
     IN  /\ writes_' = [writes_ EXCEPT ![t] = r.writes_]
         /\ status_' = [status_ EXCEPT ![t] = r.status_]
  /\ completed_txns_' = Append(completed_txns_, t)
  /\ task' = [task EXCEPT ![t].pc = "none"]
  /\ UNCHANGED << mode_, prog, cpc, mutex_, next_unique_id_, unique_id_,
                  reads_, occ_start_time_, txn_requests_, validated_txns_,
                  txn_results_, ready_txns_, lock_table_, txn_waits_,
                  active_set_, storage_, clock, sched, hist >>

\* tp_.RunTask(ExecuteTxn, t) / tp_.RunTask(ValidateTxn, t, copy)
RunTask(tk, t, pc, copy) ==
  [ tk EXCEPT ![t] = [ pc |-> pc, active_set_copy |-> copy, verified |-> TRUE ] ]

\* txn_results_.Push(t), with the history of what was posted
PostResult(h, t) == [ h EXCEPT !.posted[t] = @ + 1 ]

(***************************************************************************)
(* TxnProcessor::RunScheduler, lines 53-61.  The switch on mode_ has no    *)
(* break: when the scheduler of one case returns, control falls into the   *)
(* scheduler of the next case.  sched.at is the case whose scheduler is    *)
(* running, "returned" once RunScheduler has returned; sched.active is the *)
(* value tp_.Active() returns.                                             *)
(***************************************************************************)
SwitchCases == << "SERIAL", "LOCKING", "LOCKING_EXCLUSIVE_ONLY", "OCC", "P_OCC" >>

CaseIndex(c) == CHOOSE i \in 1..Len(SwitchCases) : SwitchCases[i] = c

FallThrough(c) ==
  IF CaseIndex(c) < Len(SwitchCases) THEN SwitchCases[CaseIndex(c) + 1]
  ELSE "returned"

\* a loop head that lets the schedulers of the following cases run their body
\* once before the pool is consulted
EntersLoop_BodyFirst(s) == s.active \/ s.at # mode_

\* while (tp_.Active()), lines 65, 90, 161, 232
EntersLoop(s) == s.active

\* the loop head of the running scheduler finds the pool stopped: the
\* scheduler returns and the switch continues with the next case
LeaveLoop ==
  /\ sched.at # "returned"
  /\ sched.pc = "requests"
  /\ ~EntersLoop(sched)
  /\ sched' = [sched EXCEPT !.at = FallThrough(sched.at)]
  /\ UNCHANGED << mode_, prog, cpc, mutex_, next_unique_id_, unique_id_,
                  status_, reads_, writes_, occ_start_time_, txn_requests_,
                  completed_txns_, validated_txns_, txn_results_, ready_txns_,
                  lock_table_, txn_waits_, active_set_, storage_, clock, task,
                  hist >>

\* the pool is stopped (the processor is being destroyed); it is never
\* started again
StopPool ==
  /\ sched.active
  /\ sched' = [sched EXCEPT !.active = FALSE]
  /\ UNCHANGED << mode_, prog, cpc, mutex_, next_unique_id_, unique_id_,
                  status_, reads_, writes_, occ_start_time_, txn_requests_,
                  completed_txns_, validated_txns_, txn_results_, ready_txns_,
                  lock_table_, txn_waits_, active_set_, storage_, clock, task,
                  hist >>

(***************************************************************************)
(* TxnProcessor::RunSerialScheduler: one iteration that pops a request.    *)
(* ExecuteTxn runs inline, on the scheduler's thread (and pushes the       *)
(* transaction onto completed_txns_, which this loop never pops).          *)
(***************************************************************************)
RunSerialScheduler ==
  /\ sched.at = "SERIAL"
  /\ EntersLoop(sched)
  /\ txn_requests_ # << >>
  /\ LET t == Head(txn_requests_)
         rd == Prefetch(storage_, prog[t])
         r == Run(prog[t], rd)
         nw == Cardinality(DOMAIN r.writes_)
     IN  /\ txn_requests_' = Tail(txn_requests_)
         /\ reads_' = [reads_ EXCEPT ![t] = rd]
         /\ writes_' = [writes_ EXCEPT ![t] = r.writes_]
         /\ IF r.status_ = "COMPLETED_C"
            THEN /\ storage_' = ApplyWrites(storage_, r.writes_, clock)
                 /\ clock' = clock + nw
                 /\ status_' = [status_ EXCEPT ![t] = "COMMITTED"]
            ELSE /\ status_' = [status_ EXCEPT ![t] = "ABORTED"]
                 /\ UNCHANGED << storage_, clock >>
         /\ completed_txns_' = Append(completed_txns_, t)
         /\ txn_results_' = Append(txn_results_, t)
         /\ hist' = PostResult(hist, t)
  /\ UNCHANGED << mode_, prog, cpc, mutex_, next_unique_id_, unique_id_,
                  occ_start_time_, validated_txns_, ready_txns_, lock_table_,
                  txn_waits_, active_set_, sched, task >>

(***************************************************************************)
(* TxnProcessor::RunLockingScheduler.  sched.pc is the part of the loop    *)
(* body the scheduler is about to run: "requests" (the Pop of              *)
(* txn_requests_), "completed" (the loop on completed_txns_), "finalize"   *)
(* (the commit or abort of the transaction popped from completed_txns_,    *)
(* held in sched.txn), "ready" (the loop on ready_txns_).                  *)
(***************************************************************************)
IsLocking == mode_ \in {"LOCKING", "LOCKING_EXCLUSIVE_ONLY"}

\* the scheduler is in RunLockingScheduler (the cases of lines 56 and 57)
InLocking == sched.at \in {"LOCKING", "LOCKING_EXCLUSIVE_ONLY"}

TheLockManager ==
  [ lock_table_ |-> lock_table_, txn_waits_ |-> txn_waits_,
    ready_txns_ |-> ready_txns_ ]

\* lines 92-112: admit at most one request
LockingRequests ==
  /\ InLocking
  /\ EntersLoop(sched)
  /\ sched.pc = "requests"
  /\ sched' = [sched EXCEPT !.pc = "completed"]
  /\ IF txn_requests_ # << >>
     THEN LET t == Head(txn_requests_)
              a1 == RequestLocks(mode_, [ lm |-> TheLockManager, blocked |-> 0 ],
                                 t, SortedSeq(prog[t].readset_), TRUE)
              a2 == RequestLocks(mode_, a1, t, SortedSeq(prog[t].writeset_), FALSE)
          IN  /\ txn_requests_' = Tail(txn_requests_)
              /\ lock_table_' = a2.lm.lock_table_
              /\ txn_waits_' = a2.lm.txn_waits_
              /\ ready_txns_' = IF a2.blocked = 0 THEN Append(a2.lm.ready_txns_, t)
                                ELSE a2.lm.ready_txns_
     ELSE UNCHANGED << txn_requests_, lock_table_, txn_waits_, ready_txns_ >>
  /\ UNCHANGED << mode_, prog, cpc, mutex_, next_unique_id_, unique_id_,
                  status_, reads_, writes_, occ_start_time_, completed_txns_,
                  validated_txns_, txn_results_, active_set_, storage_, clock,
                  task, hist >>

\* a scheduler that dispatches the ready transactions before it finalizes
\* the transaction whose locks it has released
AfterRelease_DispatchFirst(s, t) == [s EXCEPT !.pc = "ready", !.txn = t]

\* the scheduler after the release loops of lines 116-125: it goes on to
\* lines 127-139 with the popped transaction in txn
AfterRelease(s, t) == [s EXCEPT !.pc = "finalize", !.txn = t]

\* lines 114-125: pop one completed transaction and release its locks, or
\* leave the loop
LockingCompleted ==
  /\ InLocking
  /\ sched.pc = "completed"
  /\ IF completed_txns_ # << >>
     THEN LET t == Head(completed_txns_)
              l1 == ReleaseLocks(mode_, TheLockManager, t, SortedSeq(prog[t].readset_))
              l2 == ReleaseLocks(mode_, l1, t, SortedSeq(prog[t].writeset_))
          IN  /\ completed_txns_' = Tail(completed_txns_)
              /\ lock_table_' = l2.lock_table_
              /\ txn_waits_' = l2.txn_waits_
              /\ ready_txns_' = l2.ready_txns_
              /\ sched' = AfterRelease(sched, t)
     ELSE /\ sched' = [sched EXCEPT !.pc = "ready"]
          /\ UNCHANGED << completed_txns_, lock_table_, txn_waits_, ready_txns_ >>
  /\ UNCHANGED << mode_, prog, cpc, mutex_, next_unique_id_, unique_id_,
                  status_, reads_, writes_, occ_start_time_, txn_requests_,
                  validated_txns_, txn_results_, active_set_, storage_, clock,
                  task, hist >>

\* lines 127-139: commit or abort the popped transaction and post it
LockingFinalize ==
  /\ InLocking
  /\ sched.pc = "finalize"
  /\ LET t == sched.txn
         nw == Cardinality(DOMAIN writes_[t])
     IN  IF status_[t] = "COMPLETED_C"
         THEN /\ storage_' = ApplyWrites(storage_, writes_[t], clock)
              /\ clock' = clock + nw
              /\ status_' = [status_ EXCEPT ![t] = "COMMITTED"]
              /\ txn_results_' = Append(txn_results_, t)
              /\ hist' = PostResult(hist, t)
              /\ sched' = [sched EXCEPT !.pc = "completed", !.txn = 0]
         ELSE IF status_[t] = "COMPLETED_A"
         THEN /\ status_' = [status_ EXCEPT ![t] = "ABORTED"]
              /\ txn_results_' = Append(txn_results_, t)
              /\ hist' = PostResult(hist, t)
              /\ sched' = [sched EXCEPT !.pc = "completed", !.txn = 0]
              /\ UNCHANGED << storage_, clock >>
         ELSE /\ sched' = [sched EXCEPT !.pc = "DIE"]
              /\ UNCHANGED << storage_, clock, status_, txn_results_, hist >>
  /\ UNCHANGED << mode_, prog, cpc, mutex_, next_unique_id_, unique_id_,
                  reads_, writes_, occ_start_time_, txn_requests_,
                  completed_txns_, validated_txns_, ready_txns_, lock_table_,
                  txn_waits_, active_set_, task >>

\* lines 142-154: dispatch one ready transaction, or end the iteration
LockingReady ==
  /\ InLocking
  /\ sched.pc = "ready"
  /\ IF ready_txns_ # << >>
     THEN /\ ready_txns_' = Tail(ready_txns_)
          /\ task' = RunTask(task, Head(ready_txns_), "ExecuteTxn", {})
          /\ UNCHANGED sched
     ELSE /\ sched' = [sched EXCEPT !.pc = "requests"]
          /\ UNCHANGED << ready_txns_, task >>
  /\ UNCHANGED << mode_, prog, cpc, mutex_, next_unique_id_, unique_id_,
                  status_, reads_, writes_, occ_start_time_, txn_requests_,
                  completed_txns_, validated_txns_, txn_results_, lock_table_,
                  txn_waits_, active_set_, storage_, clock, hist >>


(***************************************************************************)
(* TxnProcessor::RunOCCScheduler.                                          *)
(***************************************************************************)
\* the two timestamp loops of lines 175-197, from the value verified has
OCCVerify(st, p, start, verified) ==
  LET v1 == IF \E k \in p.readset_ : StorageTimestamp(st, k) > start
            THEN FALSE ELSE verified
  IN  IF \E k \in p.writeset_ : StorageTimestamp(st, k) > start
      THEN FALSE ELSE v1

\* lines 163-169: admit at most one request; line 172: bool verified = true
OCCRequests ==
  /\ sched.at = "OCC"
  /\ EntersLoop(sched)
  /\ sched.pc = "requests"
  /\ sched' = [sched EXCEPT !.pc = "completed", !.verified = TRUE]
  /\ IF txn_requests_ # << >>
     THEN LET t == Head(txn_requests_)
          IN  /\ txn_requests_' = Tail(txn_requests_)
              /\ occ_start_time_' = [occ_start_time_ EXCEPT ![t] = clock]
              /\ clock' = clock + 1
              /\ task' = RunTask(task, t, "ExecuteTxn", {})
     ELSE UNCHANGED << txn_requests_, occ_start_time_, clock, task >>
  /\ UNCHANGED << mode_, prog, cpc, mutex_, next_unique_id_, unique_id_,
                  status_, reads_, writes_, completed_txns_, validated_txns_,
                  txn_results_, ready_txns_, lock_table_, txn_waits_,
                  active_set_, storage_, hist >>

\* lines 173-222: validate one completed transaction, or leave the loop
OCCCompleted ==
  /\ sched.at = "OCC"
  /\ sched.pc = "completed"
  /\ IF completed_txns_ # << >>
     THEN LET t == Head(completed_txns_)
              verified == OCCVerify(storage_, prog[t], occ_start_time_[t],
                                    sched.verified)
              nw == Cardinality(DOMAIN writes_[t])
          IN  /\ completed_txns_' = Tail(completed_txns_)
              /\ IF status_[t] = "COMPLETED_C" /\ verified
                 THEN /\ storage_' = ApplyWrites(storage_, writes_[t], clock)
                      /\ clock' = clock + nw
                      /\ status_' = [status_ EXCEPT ![t] = "COMMITTED"]
                      /\ txn_results_' = Append(txn_results_, t)
                      /\ hist' = PostResult(hist, t)
                      /\ sched' = [sched EXCEPT !.verified = verified]
                 ELSE IF status_[t] = "COMPLETED_C"
                 THEN /\ sched' = [sched EXCEPT !.pc = "NewTxnRequest",
                                                !.txn = t,
                                                !.back = "completed",
                                                !.verified = verified]
                      /\ UNCHANGED << storage_, clock, status_, txn_results_,
                                      hist >>
                 ELSE IF status_[t] = "COMPLETED_A"
                 THEN /\ status_' = [status_ EXCEPT ![t] = "ABORTED"]
                      /\ txn_results_' = Append(txn_results_, t)
                      /\ hist' = PostResult(hist, t)
                      /\ sched' = [sched EXCEPT !.verified = verified]
                      /\ UNCHANGED << storage_, clock >>
                 ELSE /\ sched' = [sched EXCEPT !.pc = "DIE"]
                      /\ UNCHANGED << storage_, clock, status_, txn_results_,
                                      hist >>
     ELSE /\ sched' = [sched EXCEPT !.pc = "requests"]
          /\ UNCHANGED << completed_txns_, storage_, clock, status_,
                          txn_results_, hist >>
  /\ UNCHANGED << mode_, prog, cpc, mutex_, next_unique_id_, unique_id_,
                  reads_, writes_, occ_start_time_, txn_requests_,
                  validated_txns_, ready_txns_, lock_table_, txn_waits_,
                  active_set_, task >>

\* the scheduler's call NewTxnRequest(txn) of lines 209 and 262
SchedNewTxnRequest ==
  /\ sched.pc = "NewTxnRequest"
  /\ NewTxnRequest_Lock(sched.txn)
  /\ sched' = [sched EXCEPT !.pc = "NewTxnRequestEnd"]
  /\ UNCHANGED << mode_, prog, cpc, next_unique_id_, status_, reads_, writes_,
                  occ_start_time_, txn_requests_, completed_txns_,
                  validated_txns_, txn_results_, ready_txns_, lock_table_,
                  txn_waits_, active_set_, storage_, clock, task >>

SchedNewTxnRequestEnd ==
  /\ sched.pc = "NewTxnRequestEnd"
  /\ NewTxnRequest_Unlock(sched.txn)
  /\ sched' = [sched EXCEPT !.pc = sched.back, !.txn = 0]
  /\ UNCHANGED << mode_, prog, cpc, unique_id_, status_, reads_, writes_,
                  occ_start_time_, completed_txns_, validated_txns_,
                  txn_results_, ready_txns_, lock_table_, txn_waits_,
                  active_set_, storage_, clock, task >>

(***************************************************************************)
(* TxnProcessor::RunOCCParallelScheduler and TxnProcessor::ValidateTxn.    *)
(***************************************************************************)
\* lines 235-241: admit at most one request; line 244: int i = 0
POCCRequests ==
  /\ sched.at = "P_OCC"
  /\ EntersLoop(sched)
  /\ sched.pc = "requests"
  /\ sched' = [sched EXCEPT !.pc = "completed", !.i = 0]
  /\ IF txn_requests_ # << >>
     THEN LET t == Head(txn_requests_)
          IN  /\ txn_requests_' = Tail(txn_requests_)
              /\ occ_start_time_' = [occ_start_time_ EXCEPT ![t] = clock]
              /\ clock' = clock + 1
              /\ task' = RunTask(task, t, "ExecuteTxn", {})
     ELSE UNCHANGED << txn_requests_, occ_start_time_, clock, task >>
  /\ UNCHANGED << mode_, prog, cpc, mutex_, next_unique_id_, unique_id_,
                  status_, reads_, writes_, completed_txns_, validated_txns_,
                  txn_results_, ready_txns_, lock_table_, txn_waits_,
                  active_set_, storage_, hist >>

\* lines 245-253: while (completed_txns_.Pop(&txn) && i++ < N) {...};
\* line 257: int j = 0.  (i and j are dead once their loop is left; the
\* model keeps 0 in a dead counter.)
POCCCompleted ==
  /\ sched.at = "P_OCC"
  /\ sched.pc = "completed"
  /\ IF completed_txns_ # << >>
     THEN LET t == Head(completed_txns_)
          IN  /\ completed_txns_' = Tail(completed_txns_)
              /\ IF sched.i < N
                 THEN /\ sched' = [sched EXCEPT !.i = @ + 1]
                      /\ active_set_' = active_set_ \cup {t}
                      /\ task' = RunTask(task, t, "ValidateTxn", active_set_)
                 ELSE /\ sched' = [sched EXCEPT !.i = 0, !.pc = "validated",
                                                !.j = 0]
                      /\ UNCHANGED << active_set_, task >>
     ELSE /\ sched' = [sched EXCEPT !.i = 0, !.pc = "validated", !.j = 0]
          /\ UNCHANGED << completed_txns_, active_set_, task >>
  /\ UNCHANGED << mode_, prog, cpc, mutex_, next_unique_id_, unique_id_,
                  status_, reads_, writes_, occ_start_time_, txn_requests_,
                  validated_txns_, txn_results_, ready_txns_, lock_table_,
                  txn_waits_, storage_, clock, hist >>

\* lines 258-268: while (validated_txns_.Pop(&p) && j++ < M) {...}
POCCValidated ==
  /\ sched.at = "P_OCC"
  /\ sched.pc = "validated"
  /\ IF validated_txns_ # << >>
     THEN LET p == Head(validated_txns_)
          IN  /\ validated_txns_' = Tail(validated_txns_)
              /\ IF sched.j < M /\ p.second
                 THEN /\ sched' = [sched EXCEPT !.j = @ + 1]
                      /\ active_set_' = active_set_ \ {p.first}
                      /\ txn_results_' = Append(txn_results_, p.first)
                      /\ hist' = PostResult(hist, p.first)
                      /\ UNCHANGED status_
                 ELSE IF sched.j < M
                 THEN /\ sched' = [sched EXCEPT !.j = @ + 1,
                                                !.pc = "NewTxnRequest",
                                                !.txn = p.first,
                                                !.back = "validated"]
                      /\ active_set_' = active_set_ \ {p.first}
                      /\ status_' = [status_ EXCEPT ![p.first] = "INCOMPLETE"]
                      /\ UNCHANGED << txn_results_, hist >>
                 ELSE /\ sched' = [sched EXCEPT !.j = 0, !.pc = "requests"]
                      /\ UNCHANGED << active_set_, status_, txn_results_, hist >>
     ELSE /\ sched' = [sched EXCEPT !.j = 0, !.pc = "requests"]
          /\ UNCHANGED << validated_txns_, active_set_, status_, txn_results_,
                          hist >>
  /\ UNCHANGED << mode_, prog, cpc, mutex_, next_unique_id_, unique_id_,
                  reads_, writes_, occ_start_time_, txn_requests_,
                  completed_txns_, ready_txns_, lock_table_, txn_waits_,
                  storage_, clock, task >>

\* validation by readset timestamps alone, without the comparison with the
\* snapshot of the active set
Verified_TimestampsOnly(st, p, start, copy, progs) ==
  ~ \E k \in p.readset_ : StorageTimestamp(st, k) > start

\* validation that also compares the timestamps of the writeset keys (the
\* check that is commented out at lines 300-314)
Verified_WritesetTimestamps(st, p, start, copy, progs) ==
  /\ ~ \E k \in p.readset_ \cup p.writeset_ : StorageTimestamp(st, k) > start
  /\ \A u \in copy :
        p.writeset_ \cap (progs[u].writeset_ \cup progs[u].readset_) = {}

\* lines 286-331: verified, for a COMPLETED_C transaction
Verified(st, p, start, copy, progs) ==
  /\ ~ \E k \in p.readset_ : StorageTimestamp(st, k) > start
  /\ \A u \in copy :
        p.writeset_ \cap (progs[u].writeset_ \cup progs[u].readset_) = {}

\* the task ValidateTxn(t, copy), lines 275-331: the assertion, the status
\* and the checks
ValidateTxn(t) ==
  /\ task[t].pc = "ValidateTxn"
  /\ IF t \in task[t].active_set_copy
     THEN /\ task' = [task EXCEPT ![t].pc = "assert"]
          /\ UNCHANGED status_
     ELSE IF status_[t] = "COMPLETED_A"
     THEN /\ status_' = [status_ EXCEPT ![t] = "ABORTED"]
          /\ task' = [task EXCEPT ![t].pc = "Push", ![t].verified = TRUE]
     ELSE IF status_[t] # "COMPLETED_C"
     THEN /\ task' = [task EXCEPT ![t].pc = "DIE"]
          /\ UNCHANGED status_
     ELSE LET v == Verified(storage_, prog[t], occ_start_time_[t],
                            task[t].active_set_copy, prog)
          IN  /\ task' = [task EXCEPT ![t].pc = IF v THEN "ApplyWrites" ELSE "Push",
                                      ![t].verified = v]
              /\ UNCHANGED status_
  /\ UNCHANGED << mode_, prog, cpc, mutex_, next_unique_id_, unique_id_,
                  reads_, writes_, occ_start_time_, txn_requests_,
                  completed_txns_, validated_txns_, txn_results_, ready_txns_,
                  lock_table_, txn_waits_, active_set_, storage_, clock,
                  sched, hist >>

\* line 333: if (verified) ApplyWrites(txn);
ValidateTxnApplyWrites(t) ==
  /\ task[t].pc = "ApplyWrites"
  /\ storage_' = ApplyWrites(storage_, writes_[t], clock)
  /\ clock' = clock + Cardinality(DOMAIN writes_[t])
  /\ status_' = [status_ EXCEPT ![t] = "COMMITTED"]
  /\ task' = [task EXCEPT ![t].pc = "Push"]
  /\ UNCHANGED << mode_, prog, cpc, mutex_, next_unique_id_, unique_id_,
                  reads_, writes_, occ_start_time_, txn_requests_,
                  completed_txns_, validated_txns_, txn_results_, ready_txns_,
                  lock_table_, txn_waits_, active_set_, sched, hist >>

\* line 334 (and 280): validated_txns_.Push(std::make_pair(txn, verified));
ValidateTxnPush(t) ==
  /\ task[t].pc = "Push"
  /\ validated_txns_' = Append(validated_txns_,
                               [ first |-> t, second |-> task[t].verified ])
  /\ task' = RunTask(task, t, "none", {})
  /\ UNCHANGED << mode_, prog, cpc, mutex_, next_unique_id_, unique_id_,
                  status_, reads_, writes_, occ_start_time_, txn_requests_,
                  completed_txns_, txn_results_, ready_txns_, lock_table_,
                  txn_waits_, active_set_, storage_, clock, sched, hist >>


(***************************************************************************)
(* Workloads: the transaction objects the clients submit and the content   *)
(* of storage when the first of them is submitted.                         *)
(***************************************************************************)
Workload(progs, data) == [ prog |-> progs, data |-> data ]

\* TEST(NoopTest)
NoopWorkload ==
  Workload([ t \in Txns |-> IF t = 1 THEN Noop({}) ELSE NoTxn ], EmptyMap)

\* TEST(PutTest): a Put, and once its result is back an Expect
PutWorkloads ==
  { Workload([ t \in Txns |-> IF t = 1 THEN Put(MapPut(EmptyMap, 1, 2), {})
                              ELSE IF t = 2 THEN Expect(e, {1})
                              ELSE NoTxn ],
             EmptyMap)
    : e \in { MapPut(EmptyMap, 1, 2), MapPut(EmptyMap, 1, 1), MapPut(EmptyMap, 2, 2) } }

\* TEST(BasicBank), after the Put of {1: 0}: n concurrent BankTxn
BankWorkload(n) ==
  Workload([ t \in Txns |-> IF t <= n THEN BankTxn({}) ELSE NoTxn ],
           MapPut(EmptyMap, 1, 0))

\* TEST(ShoppingTest), after the Put: n concurrent Shopping, each on an
\* account of its own, for a stock of n - 1 in key 1
ShoppingWorkload(n) ==
  Workload([ t \in Txns |-> IF t <= n THEN Shopping(t + 1, {}) ELSE NoTxn ],
           [ k \in 1..(n + 1) |-> IF k = 1 THEN n - 1 ELSE 0 ])

TestWorkloads(n) ==
  { NoopWorkload, BankWorkload(n), ShoppingWorkload(n) } \cup PutWorkloads

\* the concurrent transactions of a workload: NumTxns under SERIAL, the
\* locking modes and OCC, NumTxns - 1 under P_OCC
Concurrent(m) == IF m = "P_OCC" THEN NumTxns - 1 ELSE NumTxns

\* hist.call: the last call made to the lock manager by LockManagerCalls
\* below (operation, arguments, return value, the lock manager before the
\* call, the number of calls so far)
NoCall ==
  [ op |-> "none", txn_ |-> 0, key |-> 0, ret |-> FALSE, n |-> 0,
    before |-> [ lock_table_ |-> [ k \in Keys |-> << >> ],
                 txn_waits_ |-> EmptyMap,
                 ready_txns_ |-> << >> ] ]

InitWith(m, w) ==
  /\ mode_ = m
  /\ prog = w.prog
  /\ storage_ = [ data |-> w.data, ts |-> [ k \in DOMAIN w.data |-> 0 ] ]
  /\ cpc = [ t \in Txns |-> "new" ]
  /\ mutex_ = FALSE
  /\ next_unique_id_ = 1
  /\ unique_id_ = [ t \in Txns |-> 0 ]
  /\ status_ = [ t \in Txns |-> "INCOMPLETE" ]
  /\ reads_ = [ t \in Txns |-> EmptyMap ]
  /\ writes_ = [ t \in Txns |-> EmptyMap ]
  /\ occ_start_time_ = [ t \in Txns |-> 0 ]
  /\ txn_requests_ = << >>
  /\ completed_txns_ = << >>
  /\ validated_txns_ = << >>
  /\ txn_results_ = << >>
  /\ ready_txns_ = << >>
  /\ lock_table_ = [ k \in Keys |-> << >> ]
  /\ txn_waits_ = EmptyMap
  /\ active_set_ = {}
  /\ clock = 1
  /\ sched = [ pc |-> "requests", txn |-> 0, back |-> "requests",
               verified |-> TRUE, i |-> 0, j |-> 0,
               at |-> m, active |-> TRUE ]
  /\ task = [ t \in Txns |->
                [ pc |-> "none", active_set_copy |-> {}, verified |-> TRUE ] ]
  /\ hist = [ posted |-> [ t \in Txns |-> 0 ],
              returned |-> {},
              assigned |-> << >>,
              pushed |-> << >>,
              low |-> [ t \in Txns |-> 0 ],
              done_max |-> 0,
              first_id |-> [ t \in Txns |-> 0 ],
              call |-> NoCall ]

Client ==
  \/ \E t \in Txns : ClientNewTxnRequest(t)
  \/ \E t \in Txns : ClientNewTxnRequestEnd(t)
  \/ GetTxnResult

ExecuteTxn ==
  \/ \E t \in Txns : ExecuteTxnRead(t)
  \/ \E t \in Txns : ExecuteTxnRun(t)

RunLockingScheduler ==
  \/ LockingRequests
  \/ LockingCompleted
  \/ LockingFinalize
  \/ LockingReady

RunOCCScheduler ==
  \/ OCCRequests
  \/ OCCCompleted

RunOCCParallelScheduler ==
  \/ POCCRequests
  \/ POCCCompleted
  \/ POCCValidated

ValidateTxnTask ==
  \/ \E t \in Txns : ValidateTxn(t)
  \/ \E t \in Txns : ValidateTxnApplyWrites(t)
  \/ \E t \in Txns : ValidateTxnPush(t)

Restart ==
  \/ SchedNewTxnRequest
  \/ SchedNewTxnRequestEnd

Init == \E m \in Modes : \E w \in TestWorkloads(Concurrent(m)) : InitWith(m, w)

Next ==
  \/ Client
  \/ RunSerialScheduler
  \/ RunLockingScheduler
  \/ RunOCCScheduler
  \/ RunOCCParallelScheduler
  \/ ExecuteTxn
  \/ ValidateTxnTask
  \/ Restart

Spec == Init /\ [][Next]_vars


(***************************************************************************)
(* Workloads of contract programs.  A shape is a declared readset, a       *)
(* declared writeset and the way the program closes; a workload picks one  *)
(* shape per transaction (in nondecreasing order of shape, the clients     *)
(* submitting in any order anyway) over a storage holding keys 1 and 2.    *)
(***************************************************************************)
Shape(rs, ws, commit) == [ readset_ |-> rs, writeset_ |-> ws, commit |-> commit ]

LockingShapes ==
  << Shape({}, {1}, TRUE), Shape({}, {2}, TRUE), Shape({}, {1, 2}, TRUE),
     Shape({1}, {}, TRUE), Shape({1}, {1}, TRUE), Shape({1}, {2}, FALSE) >>

OCCShapes ==
  << Shape({}, {1}, TRUE), Shape({1}, {2}, TRUE), Shape({1}, {}, TRUE),
     Shape({1}, {1}, TRUE), Shape({2}, {1}, FALSE) >>

RMWWorkloads(shapes, n) ==
  { Workload([ t \in Txns |->
                 IF t <= n
                 THEN RMW(shapes[f[t]].readset_, shapes[f[t]].writeset_,
                          shapes[f[t]].commit, {})
                 ELSE NoTxn ],
             [ k \in {1, 2} |-> 0 ])
    : f \in { g \in [ 1..n -> 1..Len(shapes) ] :
                \A a \in 1..n : \A b \in 1..n : a <= b => g[a] <= g[b] } }

\* The processor in the two locking modes
InitLocking ==
  \E m \in {"LOCKING", "LOCKING_EXCLUSIVE_ONLY"} :
    \E w \in RMWWorkloads(LockingShapes, NumTxns) : InitWith(m, w)

NextLocking ==
  \/ Client
  \/ RunLockingScheduler
  \/ ExecuteTxn

SpecLocking == InitLocking /\ [][NextLocking]_vars

\* The processor in the two optimistic modes
InitOCC ==
  \E m \in {"OCC", "P_OCC"} :
    \E w \in RMWWorkloads(OCCShapes, Concurrent(m)) : InitWith(m, w)

NextOCC ==
  \/ Client
  \/ RunOCCScheduler
  \/ RunOCCParallelScheduler
  \/ ExecuteTxn
  \/ ValidateTxnTask
  \/ Restart

SpecOCC == InitOCC /\ [][NextOCC]_vars


(***************************************************************************)
(* Results.                                                                *)
(***************************************************************************)
Final(t) == status_[t] \in {"COMMITTED", "ABORTED"}

\* a finished validation of t is on its way to the scheduler: its pair is
\* about to be pushed, or waits in validated_txns_
ValidationPending(t) ==
  \/ task[t].pc = "Push"
  \/ \E i \in 1..Len(validated_txns_) : validated_txns_[i].first = t

\* C1: in every mode a transaction in status COMMITTED or ABORTED is pushed
\* to the result queue exactly once (under P_OCC, as soon as the scheduler
\* has taken its validation pair), and whatever is in the result queue or
\* was returned by GetTxnResult is in status COMMITTED or ABORTED.
C1_ResultPostedOnce ==
  /\ \A t \in Txns : hist.posted[t] <= 1
  /\ \A t \in Txns : Final(t) => (hist.posted[t] = 1 \/ ValidationPending(t))
  /\ \A t \in SeqSet(txn_results_) \cup hist.returned : Final(t)


(***************************************************************************)
(* Locks held during execution.                                            *)
(***************************************************************************)
\* t was dispatched to the executor and the scheduler has not yet taken it
\* from completed_txns_ (where it calls Release for it)
Dispatched(t) ==
  \/ task[t].pc \in {"ExecuteTxn", "Run"}
  \/ t \in SeqSet(completed_txns_)

\* the request at position i of queue q is granted as far as the other
\* transactions are concerned: an EXCLUSIVE request has no request of
\* another transaction before it, a SHARED request has only SHARED requests
\* (or requests of its own transaction) before it
GrantedAmongOthers(q, i) ==
  \A j \in 1..(i - 1) :
     \/ q[j].txn_ = q[i].txn_
     \/ q[i].mode_ = "SHARED" /\ q[j].mode_ = "SHARED"

\* C2: under LOCKING and LOCKING_EXCLUSIVE_ONLY, while a transaction is
\* dispatched and not yet released it has a request on every key of its
\* readset and writeset and each of its requests is granted (no request of
\* another transaction that conflicts with it is ahead of it in the queue).
C2_LocksHeldWhileDispatched ==
  IsLocking =>
    \A t \in Txns : Dispatched(t) =>
      \A k \in prog[t].readset_ \cup prog[t].writeset_ :
         /\ \E i \in 1..Len(lock_table_[k]) : lock_table_[k][i].txn_ = t
         /\ \A i \in 1..Len(lock_table_[k]) :
               lock_table_[k][i].txn_ = t => GrantedAmongOthers(lock_table_[k], i)


(***************************************************************************)
(* Progress under locking.  The scheduler thread, every worker task and    *)
(* every client thread keep running: each of them takes its next step when *)
(* that step stays possible.                                               *)
(***************************************************************************)
FairLocking ==
  /\ WF_vars(RunLockingScheduler)
  /\ WF_vars(ExecuteTxn)
  /\ WF_vars(Client)

\* the two locking modes with NumTxns - 1 transactions
InitLockingPair ==
  \E m \in {"LOCKING", "LOCKING_EXCLUSIVE_ONLY"} :
    \E w \in RMWWorkloads(LockingShapes, NumTxns - 1) : InitWith(m, w)

FairSpecLocking == InitLockingPair /\ [][NextLocking]_vars /\ FairLocking

\* C3: under LOCKING and LOCKING_EXCLUSIVE_ONLY, whatever readsets and
\* writesets the submitted transactions declare, the result of every one of
\* them is eventually posted to the result queue.
C3_EveryResultPosted ==
  <>(\A t \in Txns : prog[t].type # "None" => hist.posted[t] >= 1)


(***************************************************************************)
(* Optimistic commits.                                                     *)
(***************************************************************************)
IsOptimistic == mode_ \in {"OCC", "P_OCC"}

\* the step installs the writes of t: t becomes COMMITTED
Commits(t) == status_[t] # "COMMITTED" /\ status_'[t] = "COMMITTED"

\* C4: under OCC and P_OCC, when the writes of a transaction are applied
\* no key of its readset has a last write in storage that is newer than the
\* occ_start_time of the attempt that commits.
C4_ReadsCurrentAtCommit ==
  [][ \A t \in Txns :
        IsOptimistic /\ Commits(t) =>
          \A k \in prog[t].readset_ :
             ~ (StorageTimestamp(storage_, k) > occ_start_time_[t]) ]_vars


(***************************************************************************)
(* The bank workload.                                                      *)
(***************************************************************************)
Submitted == { t \in Txns : prog[t].type # "None" }

\* nothing is left to do but polling: every client has submitted, every
\* queue the scheduler and the workers take from is empty, no task runs
\* and the scheduler is not inside NewTxnRequest
Quiescent ==
  /\ \A t \in Submitted : cpc[t] = "submitted"
  /\ txn_requests_ = << >>
  /\ mode_ # "SERIAL" => completed_txns_ = << >>
  /\ validated_txns_ = << >>
  /\ ready_txns_ = << >>
  /\ \A t \in Txns : task[t].pc = "none"
  /\ sched.pc \notin {"NewTxnRequest", "NewTxnRequestEnd"}

BankRun == \A t \in Submitted : prog[t].type = "BankTxn"

\* C5: n concurrent BankTxn on key 1, initialised to 0: no transaction
\* ends ABORTED, none is left unfinished when the processor has nothing
\* left to do, and once all n results are returned all n are COMMITTED and
\* key 1 holds n.
C5_NoLostIncrement ==
  BankRun =>
    /\ \A t \in Submitted : status_[t] # "ABORTED"
    /\ Quiescent => \A t \in Submitted : status_[t] = "COMMITTED"
    /\ hist.returned = Submitted =>
         /\ \A t \in Submitted : status_[t] = "COMMITTED"
         /\ storage_.data[1] = Cardinality(Submitted)


(***************************************************************************)
(* The shopping workload.                                                  *)
(***************************************************************************)
ShoppingRun == \A t \in Submitted : prog[t].type = "Shopping"

\* the stock key 1 is initialised to
Stock == Cardinality(Submitted) - 1

\* the committed transactions that took the decrement branch
Decrementers ==
  { t \in Submitted : status_[t] = "COMMITTED" /\ Has(writes_[t], 1) }

\* the transactions whose account key holds v
AccountsAt(v) == { t \in Submitted : storage_.data[prog[t].account_] = v }

\* C6: in the shopping workload no two committed decrements were computed
\* from the same value of key 1, key 1 never goes below 0, key 1 plus the
\* accounts at 1 stay the initial stock (every account holds 0 or 1), and
\* once every result is returned key 1 is 0, as many accounts as the stock
\* hold 1 and the one left holds 0.
C6_ShoppingStock ==
  ShoppingRun =>
    /\ \A t \in Decrementers : \A u \in Decrementers :
          t # u => reads_[t][1] # reads_[u][1]
    /\ storage_.data[1] >= 0
    /\ Submitted = AccountsAt(0) \cup AccountsAt(1)
    /\ storage_.data[1] + Cardinality(AccountsAt(1)) = Stock
    /\ hist.returned = Submitted =>
         /\ storage_.data[1] = 0
         /\ Cardinality(AccountsAt(1)) = Stock
         /\ Cardinality(AccountsAt(0)) = Cardinality(Submitted) - Stock

\* a P_OCC shopping run in which an attempt was restarted and every result
\* was returned
C6_Witness ==
  /\ ShoppingRun
  /\ mode_ = "P_OCC"
  /\ Len(hist.assigned) > Cardinality(Submitted)
  /\ hist.returned = Submitted
  /\ Decrementers # {}


(***************************************************************************)
(* Unique ids.  hist.assigned lists the ids in the order NewTxnRequest     *)
(* assigned them, hist.pushed the ids of the transactions in the order     *)
(* they were pushed on txn_requests_, hist.low[t] is the largest id of a   *)
(* call that had returned when the last call for t took the mutex.         *)
(***************************************************************************)
\* C7: the ids NewTxnRequest assigns are pairwise distinct; the id of a
\* transaction is larger than the id of every call that returned before
\* its own call began; the assignment and the push of a call are not
\* interleaved with those of another call (at most one call is between its
\* assignment and its push, and the pushes follow the order of the ids).
C7_UniqueIdOrder ==
  /\ \A i \in 1..Len(hist.assigned) : \A j \in 1..Len(hist.assigned) :
        i # j => hist.assigned[i] # hist.assigned[j]
  /\ \A t \in Txns : unique_id_[t] # 0 => unique_id_[t] > hist.low[t]
  /\ Len(hist.assigned) = Len(hist.pushed) + (IF mutex_ THEN 1 ELSE 0)
  /\ hist.pushed = SubSeq(hist.assigned, 1, Len(hist.pushed))

\* the scheduler is about to call NewTxnRequest for a restart while a
\* client is between the assignment and the push of its own call
C7_Witness ==
  /\ sched.pc = "NewTxnRequest"
  /\ mutex_
  /\ \E t \in Txns : cpc[t] = "NewTxnRequest"
  /\ Len(hist.pushed) >= 2


\* the scheduler is inside its NewTxnRequest call for t
Reenqueueing(t) == sched.pc = "NewTxnRequestEnd" /\ sched.txn = t

\* C8: under OCC and P_OCC a transaction that was re-enqueued after a
\* failed validation has the unique_id it was given by its first
\* NewTxnRequest (hist.first_id).
C8_RestartKeepsUniqueId ==
  IsOptimistic =>
    \A t \in Txns :
       unique_id_[t] # 0 /\ ~ Reenqueueing(t) => unique_id_[t] = hist.first_id[t]


(***************************************************************************)
(* Put, then Expect.                                                       *)
(***************************************************************************)
PutRun == prog[1].type = "Put" /\ prog[2].type = "Expect"

\* C9: an Expect submitted after the result of a committed Put({k: v}) was
\* returned ends COMMITTED when it expects {k: v}, and ABORTED when it
\* expects another value for k or a value for a key that is absent.
C9_PutThenExpect ==
  PutRun =>
    /\ 1 \in hist.returned => status_[1] = "COMMITTED"
    /\ Final(2) =>
         status_[2] = IF prog[2].m = prog[1].m THEN "COMMITTED" ELSE "ABORTED"
    /\ cpc[2] # "new" => 1 \in hist.returned

\* the result of an Expect of what was put is returned
C9_Witness ==
  /\ PutRun
  /\ prog[2].m = prog[1].m
  /\ hist.returned = {1, 2}
  /\ status_[2] = "COMMITTED"


(***************************************************************************)
(* Who writes storage.                                                     *)
(***************************************************************************)
\* every request t placed is granted, on every key of its read and write
\* sets
HoldsLocks(t) ==
  \A k \in prog[t].readset_ \cup prog[t].writeset_ :
     /\ \E i \in 1..Len(lock_table_[k]) : lock_table_[k][i].txn_ = t
     /\ \A i \in 1..Len(lock_table_[k]) :
           lock_table_[k][i].txn_ = t => GrantedAmongOthers(lock_table_[k], i)

\* the step is ApplyWrites(t): it installs the writes of t, and nothing
\* else, and t becomes COMMITTED
WritesApplied(t) ==
  /\ Commits(t)
  /\ storage_' = ApplyWrites(storage_, writes_'[t], clock)

\* the Run of t ended with commit intent
CommitIntent(t) ==
  IF mode_ = "SERIAL"
  THEN /\ txn_requests_ # << >>
       /\ t = Head(txn_requests_)
       /\ Run(prog[t], Prefetch(storage_, prog[t])).status_ = "COMPLETED_C"
  ELSE status_[t] = "COMPLETED_C"

\* the regime of the mode has certified t: it ran alone (SERIAL), it ran
\* holding its locks and the scheduler is finalizing it (locking), the
\* scheduler finds no newer timestamp on its keys (OCC), its validation
\* task found it verified (P_OCC)
Certified(t) ==
  CASE mode_ = "SERIAL" -> TRUE
    [] IsLocking ->
         /\ completed_txns_ # << >>
         /\ t = Head(completed_txns_)
         /\ HoldsLocks(t)
    [] mode_ = "OCC" ->
         /\ completed_txns_ # << >>
         /\ t = Head(completed_txns_)
         /\ \A k \in prog[t].readset_ \cup prog[t].writeset_ :
               ~ (StorageTimestamp(storage_, k) > occ_start_time_[t])
    [] OTHER ->
         /\ task[t].pc = "ApplyWrites"
         /\ task[t].verified

\* the step is a step of ExecuteTxn(t)
ExecuteTxnStep(t) ==
  \/ task[t].pc = "ExecuteTxn" /\ task'[t].pc = "Run"
  \/ task[t].pc = "Run" /\ task'[t].pc = "none"

\* the step makes t ABORTED, or sends t back for another attempt
AbortsOrRestarts(t) ==
  \/ status_[t] # "ABORTED" /\ status_'[t] = "ABORTED"
  \/ sched.pc # "NewTxnRequest" /\ sched'.pc = "NewTxnRequest" /\ sched'.txn = t

\* storage changes only by ApplyWrites; ExecuteTxn, an abort and a restart
\* leave it as it is
StorageFrame ==
  [][ /\ storage_' # storage_ => \E t \in Txns : WritesApplied(t) /\ CommitIntent(t)
      /\ \A t \in Txns : ExecuteTxnStep(t) \/ AbortsOrRestarts(t) =>
                            storage_' = storage_ ]_vars

OCCSchedulerThread ==
  \/ RunOCCScheduler
  \/ RunOCCParallelScheduler
  \/ Restart

Workers ==
  \/ ExecuteTxn
  \/ ValidateTxnTask

FairOCC ==
  /\ WF_vars(OCCSchedulerThread)
  /\ WF_vars(Workers)
  /\ WF_vars(Client)

\* the two optimistic modes with NumTxns - 1 transactions
InitOCCPair ==
  \E m \in {"OCC", "P_OCC"} :
    \E w \in RMWWorkloads(OCCShapes, NumTxns - 1) : InitWith(m, w)

FairSpecOCC == InitOCCPair /\ [][NextOCC]_vars /\ FairOCC

\* the model has no unique_id left for another NewTxnRequest
OutOfUniqueIds == next_unique_id_ > MaxUniqueId

\* C11: under OCC and P_OCC the result of every submitted transaction is
\* eventually posted to the result queue (in the model: unless the restarts
\* use up the unique_ids of the model first).
C11_EveryResultPosted ==
  <>(OutOfUniqueIds \/ \A t \in Submitted : hist.posted[t] >= 1)


(***************************************************************************)
(* The wait counters of the lock managers.                                 *)
(***************************************************************************)
\* the request at position i of queue q is not granted: an EXCLUSIVE request
\* that is not the head, a SHARED request with an EXCLUSIVE one before it
NotGranted(q, i) ==
  IF q[i].mode_ = "EXCLUSIVE" THEN i > 1
  ELSE \E j \in 1..(i - 1) : q[j].mode_ = "EXCLUSIVE"

\* the keys on which a request of t waits
WaitingKeys(t) ==
  { k \in DOMAIN lock_table_ :
      \E i \in 1..Len(lock_table_[k]) :
        lock_table_[k][i].txn_ = t /\ NotGranted(lock_table_[k], i) }

HasRequests(t) ==
  \E k \in DOMAIN lock_table_ : \E i \in 1..Len(lock_table_[k]) :
    lock_table_[k][i].txn_ = t

WaitCounter(t) == IF Has(txn_waits_, t) THEN txn_waits_[t] ELSE 0

\* no transaction declares a key in both its readset and its writeset, so
\* the scheduler places one request per transaction and key
OneRequestPerKey ==
  \A t \in Txns : prog[t].readset_ \cap prog[t].writeset_ = {}

\* C12: in both lock managers the wait counter of every transaction whose
\* requests are placed equals the number of keys on which its request is not
\* yet granted, and no wait counter is below zero (stated for the workloads
\* with one request per transaction and key).
C12_WaitCounterCountsKeys ==
  (IsLocking /\ OneRequestPerKey) =>
    /\ \A t \in Txns :
         HasRequests(t) => WaitCounter(t) = Cardinality(WaitingKeys(t))
    /\ \A t \in DOMAIN txn_waits_ : txn_waits_[t] >= 0


(***************************************************************************)
(* The lock managers under any caller: ReadLock, WriteLock and Release     *)
(* called in any order for any transaction on the keys 1..LMKeys, a        *)
(* Release only for a transaction that has a request on the key (as the    *)
(* scheduler does).  At most MaxQueueLen requests per key and MaxCalls     *)
(* calls.                                                                  *)
(***************************************************************************)
LMKeys == 2
MaxQueueLen == 4
MaxCalls == 5

LockManagerCall(op, t, k, lm, ret) ==
  /\ hist.call.n < MaxCalls
  /\ lock_table_' = lm.lock_table_
  /\ txn_waits_' = lm.txn_waits_
  /\ ready_txns_' = lm.ready_txns_
  /\ hist' = [ hist EXCEPT !.call = [ op |-> op, txn_ |-> t, key |-> k,
                                      ret |-> ret, n |-> @.n + 1,
                                      before |-> TheLockManager ] ]
  /\ UNCHANGED << mode_, prog, cpc, mutex_, next_unique_id_, unique_id_,
                  status_, reads_, writes_, occ_start_time_, txn_requests_,
                  completed_txns_, validated_txns_, txn_results_, active_set_,
                  storage_, clock, sched, task >>

CallReadLock ==
  \E t \in Txns : \E k \in 1..LMKeys :
    /\ Len(lock_table_[k]) < MaxQueueLen
    /\ LET r == ReadLock(mode_, TheLockManager, t, k)
       IN  LockManagerCall("ReadLock", t, k, r.lm, r.ret)

CallWriteLock ==
  \E t \in Txns : \E k \in 1..LMKeys :
    /\ Len(lock_table_[k]) < MaxQueueLen
    /\ LET r == WriteLock(mode_, TheLockManager, t, k)
       IN  LockManagerCall("WriteLock", t, k, r.lm, r.ret)

CallRelease ==
  \E t \in Txns : \E k \in 1..LMKeys :
    /\ FirstOf(lock_table_[k], t) # 0
    /\ LockManagerCall("Release", t, k,
                       Release(mode_, TheLockManager, t, k), TRUE)

InitLockManager ==
  \E m \in {"LOCKING", "LOCKING_EXCLUSIVE_ONLY"} :
    InitWith(m, Workload([ t \in Txns |-> NoTxn ], EmptyMap))

NextLockManager == CallReadLock \/ CallWriteLock \/ CallRelease

SpecLockManager == InitLockManager /\ [][NextLockManager]_vars

\* the last call was op, made to the lock manager of mode m
LastCall(m, op) == mode_ = m /\ hist.call.op = op

\* the queue of the last call's key before the call, and after it
QueueBefore == hist.call.before.lock_table_[hist.call.key]

QueueAfter == lock_table_[hist.call.key]

\* C13: LockManagerB::WriteLock appends one EXCLUSIVE request for the
\* transaction to the key's queue and returns true exactly when that request
\* is the head of the queue, that is when the queue was empty before.
C13_WriteLockGrantedIffHead ==
  LastCall("LOCKING", "WriteLock") =>
    /\ QueueAfter = Append(QueueBefore, LockRequest("EXCLUSIVE", hist.call.txn_))
    /\ hist.call.ret <=> QueueBefore = << >>

\* C14: LockManagerB::ReadLock appends one SHARED request for the
\* transaction to the key's queue and returns true exactly when no EXCLUSIVE
\* request precedes it in the queue.
C14_ReadLockGrantedIffNoExclusiveBefore ==
  LastCall("LOCKING", "ReadLock") =>
    /\ QueueAfter = Append(QueueBefore, LockRequest("SHARED", hist.call.txn_))
    /\ hist.call.ret <=>
         \A i \in 1..Len(QueueBefore) : QueueBefore[i].mode_ # "EXCLUSIVE"

\* a ReadLock granted behind two SHARED requests
C14_Witness ==
  /\ LastCall("LOCKING", "ReadLock")
  /\ hist.call.ret
  /\ Len(QueueBefore) >= 2

\* the position in the queue of the request that the last Release removed
Released == FirstOf(QueueBefore, hist.call.txn_)

\* the last call left the wait counters and the ready list as they were
WokeNobody ==
  /\ txn_waits_ = hist.call.before.txn_waits_
  /\ ready_txns_ = hist.call.before.ready_txns_

\* C15: in both lock managers a Release of a request that is not at the head
\* of the key's queue removes that request and wakes nobody: no wait counter
\* changes and nothing is appended to the ready list.
C15_ReleaseBehindHeadWakesNobody ==
  (IsLocking /\ hist.call.op = "Release" /\ Released > 1) =>
    /\ QueueAfter = RemoveAt(QueueBefore, Released)
    /\ WokeNobody

\* the positions in queue q of the requests that become granted when the head
\* of q is removed: the second request if it is EXCLUSIVE, the SHARED run
\* that starts at the second request if the head was EXCLUSIVE, none if the
\* head and the second request are both SHARED
GrantedByHeadRemoval(q) ==
  IF Len(q) < 2 THEN {}
  ELSE IF q[2].mode_ = "EXCLUSIVE" THEN {2}
  ELSE IF q[1].mode_ = "EXCLUSIVE"
       THEN { i \in 2..Len(q) : \A j \in 2..i : q[j].mode_ = "SHARED" }
       ELSE {}

CounterIn(w, t) == IF Has(w, t) THEN w[t] ELSE 0

\* the positions among P whose decrement brings the counter of the request's
\* transaction to zero, the decrements being made in queue order
ReachZero(q, w, P) ==
  { i \in P :
      CounterIn(w, q[i].txn_)
        - Cardinality({ j \in P : j <= i /\ q[j].txn_ = q[i].txn_ }) = 0 }

\* C16: a Release of the head request decrements by one, once per request,
\* the wait counter of exactly the requests that the removal grants (the new
\* head if it is EXCLUSIVE, the SHARED run at the new head if the removed
\* request was EXCLUSIVE, none if both are SHARED), and appends to the ready
\* list, in queue order, the transactions whose counter reaches zero.
C16_ReleaseOfHeadWakesTheGranted ==
  (IsLocking /\ hist.call.op = "Release" /\ Released = 1) =>
    LET q == QueueBefore
        w == hist.call.before.txn_waits_
        P == GrantedByHeadRemoval(q)
        Z == SortedSeq(ReachZero(q, w, P))
    IN  /\ QueueAfter = Tail(q)
        /\ \A t \in Txns :
             WaitCounter(t) =
               CounterIn(w, t) - Cardinality({ i \in P : q[i].txn_ = t })
        /\ ready_txns_ =
             hist.call.before.ready_txns_ \o [ n \in 1..Len(Z) |-> q[Z[n]].txn_ ]

\* the queue [A:write, B:read, C:write] under LOCKING: the release of A has
\* put B, and only B, on the ready list
C16_Witness ==
  /\ LastCall("LOCKING", "Release")
  /\ Released = 1
  /\ Len(QueueBefore) = 3
  /\ QueueBefore[1].mode_ = "EXCLUSIVE"
  /\ QueueBefore[2].mode_ = "SHARED"
  /\ QueueBefore[3].mode_ = "EXCLUSIVE"
  /\ Cardinality({ QueueBefore[i].txn_ : i \in 1..3 }) = 3
  /\ ready_txns_ = << QueueBefore[2].txn_ >>
  /\ WaitCounter(QueueBefore[3].txn_) = 1

\* the positions of the head prefix of queue q: the head if it is EXCLUSIVE,
\* the maximal run of SHARED requests at the head otherwise
HeadPrefix(q) ==
  IF q = << >> THEN {}
  ELSE IF q[1].mode_ = "EXCLUSIVE" THEN {1}
  ELSE { i \in 1..Len(q) : \A j \in 1..i : q[j].mode_ = "SHARED" }

\* every transaction of the head prefix of every key's queue that waits on
\* no key has wait counter zero
HeadPrefixRunnable ==
  \A k \in DOMAIN lock_table_ : \A i \in HeadPrefix(lock_table_[k]) :
    LET t == lock_table_[k][i].txn_
    IN  WaitingKeys(t) = {} => WaitCounter(t) = 0

\* the scheduler takes a completed transaction and releases its locks
ReleasesLocks ==
  /\ sched.pc = "completed"
  /\ completed_txns_ # << >>
  /\ completed_txns_' = Tail(completed_txns_)

\* C17: under shared/exclusive locking, after the Release calls made for a
\* completed transaction the transactions of the head prefix of every key's
\* queue (the EXCLUSIVE head, or the maximal SHARED prefix) have wait counter
\* zero.  Stated for the transactions that wait on no key: one that still
\* waits behind another key's head is left out.
C17_HeadPrefixRunnable ==
  [][(mode_ = "LOCKING" /\ ReleasesLocks) => HeadPrefixRunnable']_vars

\* C18: in both locking modes a transaction has at most one request in the
\* queue of any key.
C18_OneRequestPerTxnAndKey ==
  IsLocking =>
    \A k \in DOMAIN lock_table_ :
      \A i, j \in 1..Len(lock_table_[k]) :
        lock_table_[k][i].txn_ = lock_table_[k][j].txn_ => i = j

(***************************************************************************)
(* Validation under OCC.                                                   *)
(***************************************************************************)
\* some key of t's readset or writeset was written after t started
Stale(t) ==
  \E k \in prog[t].readset_ \cup prog[t].writeset_ :
    StorageTimestamp(storage_, k) > occ_start_time_[t]

\* the OCC scheduler takes t from the completion queue and validates it
OCCValidates(t) ==
  /\ mode_ = "OCC"
  /\ sched.pc = "completed"
  /\ completed_txns_ # << >>
  /\ Head(completed_txns_) = t
  /\ completed_txns_' = Tail(completed_txns_)

\* the scheduler goes on to call NewTxnRequest(t)
ReenqueuedNext(t) == sched'.pc = "NewTxnRequest" /\ sched'.txn = t

PostedNow(t) == txn_results_' = Append(txn_results_, t)

\* C19: under OCC a completed transaction is validated on its own, whatever
\* else is drained in the same iteration: with commit intent it is
\* re-enqueued exactly when some key of its readset or writeset has a
\* timestamp newer than its occ_start_time, and otherwise its writes are
\* applied, it becomes COMMITTED and is posted; with abort intent and no
\* newer timestamp it becomes ABORTED and is posted.
C19_ValidatedOnItsOwn ==
  [][ \A t \in Txns :
        OCCValidates(t) =>
          /\ status_[t] = "COMPLETED_C" => (ReenqueuedNext(t) <=> Stale(t))
          /\ (status_[t] = "COMPLETED_C" /\ ~ Stale(t)) =>
               /\ status_'[t] = "COMMITTED"
               /\ storage_' = ApplyWrites(storage_, writes_[t], clock)
               /\ PostedNow(t)
          /\ (status_[t] = "COMPLETED_A" /\ ~ Stale(t)) =>
               /\ status_'[t] = "ABORTED"
               /\ storage_' = storage_
               /\ PostedNow(t) ]_vars

\* C20: under OCC and P_OCC a transaction whose Run ends with abort intent
\* (COMPLETED_A) is never re-enqueued, and it becomes ABORTED and its result
\* is posted (in the model: unless the restarts of other transactions use
\* up the unique_ids of the model first).
C20_AbortIntentNotRetried ==
  /\ [][ \A t \in Txns :
           status_[t] \in {"COMPLETED_A", "ABORTED"} => ~ ReenqueuedNext(t) ]_vars
  /\ \A t \in Txns :
       (status_[t] = "COMPLETED_A") ~>
         (OutOfUniqueIds \/ (status_[t] = "ABORTED" /\ hist.posted[t] = 1))

(***************************************************************************)
(* The batches of RunOCCParallelScheduler.                                 *)
(***************************************************************************)
\* the P_OCC scheduler pops a transaction from the completion queue
PopsCompleted ==
  /\ mode_ = "P_OCC"
  /\ sched.pc = "completed"
  /\ completed_txns_ # << >>
  /\ completed_txns_' = Tail(completed_txns_)

\* the P_OCC scheduler pops a pair from the validated queue
PopsValidated ==
  /\ mode_ = "P_OCC"
  /\ sched.pc = "validated"
  /\ validated_txns_ # << >>
  /\ validated_txns_' = Tail(validated_txns_)

\* C21: under P_OCC every transaction the scheduler pops from the completion
\* queue is inserted into the active set and dispatched to validation, and
\* every pair it pops from the validated queue is removed from the active
\* set and then posted (verified) or reset to INCOMPLETE and re-enqueued
\* (not verified): no popped item is dropped when a batch reaches its bound.
C21_NoPoppedItemDropped ==
  [][ /\ PopsCompleted =>
           LET t == Head(completed_txns_)
           IN  /\ t \in active_set_'
               /\ task'[t].pc = "ValidateTxn"
      /\ PopsValidated =>
           LET p == Head(validated_txns_)
           IN  /\ p.first \notin active_set_'
               /\ IF p.second THEN PostedNow(p.first)
                  ELSE /\ status_'[p.first] = "INCOMPLETE"
                       /\ ReenqueuedNext(p.first) ]_vars

(***************************************************************************)
(* The verdict of ValidateTxn.                                             *)
(***************************************************************************)
\* (a) no key of t's readset was written after t started
NoNewerRead(t) ==
  \A k \in prog[t].readset_ :
    ~ (StorageTimestamp(storage_, k) > occ_start_time_[t])

\* (b) t's writeset shares no key with a transaction of its snapshot
NoOverlap(t) ==
  \A u \in task[t].active_set_copy :
    prog[t].writeset_ \cap (prog[u].readset_ \cup prog[u].writeset_) = {}

\* the task ValidateTxn(t) decides on a COMPLETED_C transaction
Decides(t) ==
  /\ task[t].pc = "ValidateTxn"
  /\ task'[t].pc # "ValidateTxn"
  /\ status_[t] = "COMPLETED_C"

\* C22: for a COMPLETED_C transaction ValidateTxn posts verified = true
\* exactly when (a) no key of its readset has a timestamp greater than its
\* occ_start_time and (b) its writeset has no key in common with the readset
\* or writeset of a transaction of its snapshot; the timestamps of keys that
\* are only in its writeset do not count.  Its writes are applied to storage
\* exactly when verified is true.
C22_ValidateTxnVerdict ==
  [][ \A t \in Txns :
        /\ Decides(t) =>
             /\ task'[t].verified <=> (NoNewerRead(t) /\ NoOverlap(t))
             /\ task'[t].pc = (IF task'[t].verified THEN "ApplyWrites" ELSE "Push")
             /\ storage_' = storage_
        /\ (task[t].pc = "ApplyWrites" /\ task'[t].pc # "ApplyWrites") =>
             /\ task[t].verified
             /\ storage_' = ApplyWrites(storage_, writes_[t], clock)
             /\ task'[t].pc = "Push"
        /\ (task[t].pc = "Push" /\ task'[t].pc # "Push") =>
             validated_txns_' =
               Append(validated_txns_, [ first |-> t, second |-> task[t].verified ])
    ]_vars

\* a transaction found verified, about to apply its writes, although a key
\* that is only in its writeset was written after it started
C22_Witness ==
  \E t \in Txns :
    /\ mode_ = "P_OCC"
    /\ task[t].pc = "ApplyWrites"
    /\ task[t].verified
    /\ \E k \in prog[t].writeset_ \ prog[t].readset_ :
         StorageTimestamp(storage_, k) > occ_start_time_[t]

(***************************************************************************)
(* ValidateTxn: the writes, then the pair.                                 *)
(***************************************************************************)
\* the pair (t, true) is in the validated queue
PairVisible(t) ==
  \E i \in 1..Len(validated_txns_) :
    validated_txns_[i] = [ first |-> t, second |-> TRUE ]

\* the task ValidateTxn(t) is between its verdict and the end of ApplyWrites
Installing(t) == task[t].pc = "ApplyWrites"

\* the step is the ApplyWrites of ValidateTxn(t)
InstallsWrites(t) == task[t].pc = "ApplyWrites" /\ task'[t].pc = "Push"

\* C23: under P_OCC, for a transaction that passes validation all of its
\* buffered writes are in storage and its status is COMMITTED before the
\* pair (txn, true) is visible in the validated queue; while its writes are
\* being installed it is in the active set, and in the snapshot of every
\* transaction dispatched to validation meanwhile.
C23_WritesBeforeVerifiedPair ==
  /\ [](mode_ = "P_OCC" =>
          \A t \in Txns :
            /\ Installing(t) =>
                 /\ t \in active_set_
                 /\ \A i \in 1..Len(validated_txns_) : validated_txns_[i].first # t
            /\ PairVisible(t) =>
                 /\ status_[t] \in {"COMMITTED", "ABORTED"}
                 /\ task[t].pc = "none"
                 /\ t \in active_set_)
  /\ [][ \A t \in Txns :
           /\ InstallsWrites(t) =>
                /\ \A k \in DOMAIN writes_[t] :
                     /\ StorageRead(storage_', k)
                     /\ storage_'.data[k] = writes_[t][k]
                     /\ StorageTimestamp(storage_', k) >= clock
                /\ status_'[t] = "COMMITTED"
                /\ validated_txns_' = validated_txns_
           /\ (PopsCompleted /\ Installing(t) /\ sched.i < N) =>
                t \in task'[Head(completed_txns_)].active_set_copy ]_vars

\* another transaction is dispatched to validation, with t in its snapshot,
\* while t's writes are being installed
C23_Witness ==
  \E t \in Txns : \E u \in Txns \ {t} :
    /\ mode_ = "P_OCC"
    /\ Installing(t)
    /\ DOMAIN writes_[t] # {}
    /\ task[u].pc = "ValidateTxn"
    /\ t \in task[u].active_set_copy

(***************************************************************************)
(* Restarted attempts.                                                     *)
(***************************************************************************)
\* every transaction waiting in the request queue is INCOMPLETE
QueuedIncomplete ==
  \A i \in 1..Len(txn_requests_) : status_[txn_requests_[i]] = "INCOMPLETE"

\* the scheduler takes t from the request queue and starts an attempt
StartsAttempt(t) ==
  /\ sched.pc = "requests"
  /\ txn_requests_ # << >>
  /\ Head(txn_requests_) = t
  /\ txn_requests_' = Tail(txn_requests_)

\* the Run body of t is invoked
InvokesRun(t) == task[t].pc = "Run" /\ task'[t].pc = "none"

\* C24: under OCC and P_OCC every attempt, a restarted one included, is a
\* fresh attempt: a transaction on the request queue has status INCOMPLETE,
\* its occ_start_time is the time at which the scheduler takes it from the
\* queue, and when its Run body is invoked its writes are empty and its
\* reads are what ExecuteTxn has just read.
C24_RestartIsFreshAttempt ==
  /\ [](IsOptimistic => QueuedIncomplete)
  /\ [][ IsOptimistic =>
           \A t \in Txns :
             /\ StartsAttempt(t) => occ_start_time_'[t] = clock
             /\ InvokesRun(t) =>
                  /\ writes_[t] = EmptyMap
                  /\ DOMAIN reads_[t] \subseteq
                       prog[t].readset_ \cup prog[t].writeset_ ]_vars

(***************************************************************************)
(* The lifetime of a processor: the operations of Next, the stop of the    *)
(* pool, and the return of each scheduler into the next case of            *)
(* RunScheduler's switch.                                                  *)
(***************************************************************************)
Lifetime ==
  \/ StopPool
  \/ LeaveLoop

NextLifetime ==
  \/ Next
  \/ Lifetime

SpecLifetime == Init /\ [][NextLifetime]_vars

\* the scheduler thread pops a request, a completion or a validated result,
\* applies writes, or posts a result
SchedulerPops ==
  \/ txn_requests_ # << >> /\ txn_requests_' = Tail(txn_requests_)
  \/ completed_txns_ # << >> /\ completed_txns_' = Tail(completed_txns_)
  \/ validated_txns_ # << >> /\ validated_txns_' = Tail(validated_txns_)

SchedulerActs ==
  \/ SchedulerPops
  \/ Len(txn_results_') > Len(txn_results_)
  \/ mode_ # "P_OCC" /\ storage_' # storage_

\* C25: for a processor constructed in mode m, a request, a completion or a
\* validated result is popped, writes are applied by the scheduler and a
\* result is posted only while RunScheduler is in the case of m; in every
\* other case of the switch, reached by falling through after the pool has
\* stopped, the scheduler stays at its loop head and executes no loop body.
C25_OnlyTheModesLoopRuns ==
  /\ [](sched.at # mode_ => (sched.pc = "requests" /\ ~sched.active))
  /\ [][SchedulerActs => sched.at = mode_]_vars

\* RunScheduler of a SERIAL processor has fallen through every case and
\* returned while a request was waiting
C25_Witness ==
  /\ mode_ = "SERIAL"
  /\ sched.at = "returned"
  /\ txn_requests_ # << >>

\* the assertion at the top of ValidateTxn (line 275): the snapshot of a
\* dispatched validation does not contain the transaction it validates
AssertionHolds ==
  \A t \in Txns :
     task[t].pc = "ValidateTxn" => t \notin task[t].active_set_copy

\* t is between its dispatch to validation and the scheduler's pop of its
\* validated result: its validation task runs or its pair is queued
BeingValidated(t) ==
  \/ task[t].pc \in {"ValidateTxn", "ApplyWrites", "Push"}
  \/ \E i \in 1..Len(validated_txns_) : validated_txns_[i].first = t

\* active_set_ changes only in a step of the scheduler's two loops
OnlySchedulerChangesActiveSet ==
  active_set_' # active_set_ =>
     /\ sched.pc \in {"completed", "validated"}
     /\ sched' # sched
     /\ \A t \in Txns : task'[t] # task[t] => task'[t].pc = "ValidateTxn"

ActiveExactlyWhileValidated ==
  \A t \in Txns : t \in active_set_ <=> BeingValidated(t)

\* C26: under P_OCC the snapshot handed to ValidateTxn never contains the
\* validated transaction, restarted transactions included; active_set_ is
\* changed only by the scheduler loop; and a transaction is in active_set_
\* exactly from its dispatch to validation until the scheduler drains its
\* validated result.
C26_ActiveSetFollowsValidation ==
  /\ [](mode_ = "P_OCC" => (AssertionHolds /\ ActiveExactlyWhileValidated))
  /\ [][mode_ = "P_OCC" => OnlySchedulerChangesActiveSet]_vars

\* the scheduler has released the locks of sched.txn and has not yet applied
\* its writes (between line 125 and line 129)
WritesPending == IsLocking /\ sched.txn # 0

\* the transactions that wait for their dispatch: granted or woken ones on
\* the ready list, and requests not yet admitted
AwaitingDispatch ==
  { ready_txns_[i] : i \in 1..Len(ready_txns_) }
    \cup { txn_requests_[i] : i \in 1..Len(txn_requests_) }

\* the scheduler hands u to ExecuteTxn (line 149), admits a request (line
\* 92), or u starts its prefetch reads (lines 345-360)
Dispatches(u) == task[u].pc # "ExecuteTxn" /\ task'[u].pc = "ExecuteTxn"

Admits == txn_requests_ # << >> /\ txn_requests_' = Tail(txn_requests_)

StartsPrefetch(u) == task[u].pc = "ExecuteTxn" /\ task'[u].pc = "Run"

\* C27: under LOCKING and LOCKING_EXCLUSIVE_ONLY the locks of a finished
\* transaction are released before its writes are applied; while the writes
\* are pending, the transactions woken by the release stay on the ready list
\* and no request is admitted (nothing is dispatched or admitted), and no
\* transaction that awaits its dispatch starts its prefetch reads.
C27_NoPrefetchBeforeWritesApplied ==
  /\ [](WritesPending =>
          /\ ~HasRequests(sched.txn)
          /\ status_[sched.txn] \notin {"COMMITTED", "ABORTED"})
  /\ [][ WritesPending =>
            /\ ~Admits
            /\ \A u \in Txns :
                  /\ ~Dispatches(u)
                  /\ u \in AwaitingDispatch => task[u].pc = "none"
                  /\ (u \in AwaitingDispatch \/ u \in AwaitingDispatch')
                        => ~StartsPrefetch(u) ]_vars

\* a committing transaction has released its locks, a transaction woken by
\* that release is on the ready list, and the writes are not yet in storage
C27_Witness ==
  /\ WritesPending
  /\ status_[sched.txn] = "COMPLETED_C"
  /\ DOMAIN writes_[sched.txn] # {}
  /\ \E i \in 1..Len(ready_txns_) :
        prog[ready_txns_[i]].readset_ \cap DOMAIN writes_[sched.txn] # {}

=============================================================================
